---- MODULE Spec2Model ----
(***************************************************************************)
(* Case-conversion functions of the repository: toKebabCase, toDotCase,    *)
(* the strict PascalCase toCamelCase, the permissive Unicode PascalCase    *)
(* toCamelCase and the permissive ASCII camelCase toCamelCase.             *)
(*                                                                         *)
(* A JavaScript string is modelled as a sequence of characters; a          *)
(* character is a one-character TLA+ string for ASCII and a "U+XXXX" token *)
(* for the few non-ASCII characters whose case mapping or class matters.   *)
(* A caller draws an input, calls one function on it, and may then call a  *)
(* second function on the same input or feed the returned string back in.  *)
(*                                                                         *)
(* The two HTTP services of the repository are modelled beside them: the   *)
(* in-memory tasks server (GET /, GET /tasks, POST /tasks) and the         *)
(* comments router (GET /comments/:itemId, DELETE /comments/:commentId),   *)
(* whose asynchronous DELETE handler is split at its awaits.               *)
(***************************************************************************)
EXTENDS Integers, Sequences, FiniteSets, TLC

VARIABLES input, arg, fn, out, prevFn, prevOut, pc,
          tasks, taskReq, taskRes, accepted,
          store, reqs, removers

\* The caller of the conversion functions
callerVars == <<input, arg, fn, out, prevFn, prevOut, pc>>

\* The tasks server: its list, the last request body and response, and the
\* texts of the POSTs answered 200 so far (history)
taskVars == <<tasks, taskReq, taskRes, accepted>>

\* The comments router: the Comment collection, the requests being handled,
\* and who removed which comment (history)
commentVars == <<store, reqs, removers>>

vars == <<input, arg, fn, out, prevFn, prevOut, pc,
          tasks, taskReq, taskRes, accepted,
          store, reqs, removers>>

(***************************************************************************)
(* Characters and character classes (the classes the regular expressions   *)
(* and String.prototype methods of the source distinguish).                *)
(***************************************************************************)
LowerSeq ==
  << "a", "b", "c", "d", "e", "f", "g", "h", "i", "j", "k", "l", "m",
     "n", "o", "p", "q", "r", "s", "t", "u", "v", "w", "x", "y", "z" >>

UpperSeq ==
  << "A", "B", "C", "D", "E", "F", "G", "H", "I", "J", "K", "L", "M",
     "N", "O", "P", "Q", "R", "S", "T", "U", "V", "W", "X", "Y", "Z" >>

Range(s) == {s[i] : i \in DOMAIN s}

\* [a-z]
Lower == Range(LowerSeq)

\* [A-Z]
Upper == Range(UpperSeq)

\* [A-Za-z]
AsciiLetter == Lower \cup Upper

\* [0-9], which is what \d means in a JavaScript regular expression
Digit == {"0", "1", "2", "3", "4", "5", "6", "7", "8", "9"}

\* \s, and the characters String.prototype.trim strips (the same set):
\* space, tab, line feed, no-break space
WhiteSpace == {" ", "\t", "\n", "U+00A0"}

\* Non-ASCII characters of the model:
\*   U+00E9 e-acute (small), U+00C9 E-acute (capital),
\*   U+212A KELVIN SIGN (lowercases to ASCII k),
\*   U+0130 capital I with dot above (lowercases to i followed by U+0307),
\*   U+0307 combining dot above (a mark), U+0663 ARABIC-INDIC DIGIT THREE.
\* \p{L}
UnicodeLetter == AsciiLetter \cup {"U+00E9", "U+00C9", "U+212A", "U+0130"}

\* \p{N}
UnicodeNumber == Digit \cup {"U+0663"}

Min(S) == CHOOSE x \in S : \A y \in S : x <= y

Max(S) == CHOOSE x \in S : \A y \in S : x >= y

IndexIn(c, s) == CHOOSE i \in DOMAIN s : s[i] = c

\* String.prototype.toLowerCase on one character (a string: U+0130 grows)
LowerChar(c) ==
  IF c \in Upper THEN << LowerSeq[IndexIn(c, UpperSeq)] >>
  ELSE IF c = "U+00C9" THEN << "U+00E9" >>
  ELSE IF c = "U+212A" THEN << "k" >>
  ELSE IF c = "U+0130" THEN << "i", "U+0307" >>
  ELSE << c >>

\* String.prototype.toUpperCase on one character
UpperChar(c) ==
  IF c \in Lower THEN << UpperSeq[IndexIn(c, LowerSeq)] >>
  ELSE IF c = "U+00E9" THEN << "U+00C9" >>
  ELSE << c >>

RECURSIVE FlatMap(_, _)
FlatMap(s, f) ==
  IF s = << >> THEN << >> ELSE f[Head(s)] \o FlatMap(Tail(s), f)

\* String.prototype.toLowerCase
toLowerCase(s) == FlatMap(s, [c \in Range(s) |-> LowerChar(c)])

\* String.prototype.toUpperCase
toUpperCase(s) == FlatMap(s, [c \in Range(s) |-> UpperChar(c)])

\* String.prototype.trim
trim(s) ==
  LET keep == {i \in DOMAIN s : s[i] \notin WhiteSpace}
  IN  IF keep = {} THEN << >> ELSE SubSeq(s, Min(keep), Max(keep))

\* String.prototype.charAt(0)
charAt0(s) == IF s = << >> THEN << >> ELSE << s[1] >>

\* String.prototype.slice(1)
slice1(s) == IF s = << >> THEN << >> ELSE Tail(s)

RECURSIVE join(_, _)
\* Array.prototype.join
join(words, sep) ==
  IF words = << >> THEN << >>
  ELSE IF Len(words) = 1 THEN words[1]
  ELSE words[1] \o sep \o join(Tail(words), sep)

RECURSIVE SplitFrom(_, _, _, _)
SplitFrom(s, Sep, i, cur) ==
  IF i > Len(s) THEN << cur >>
  ELSE IF s[i] \in Sep
    THEN LET rest == {j \in i..Len(s) : s[j] \notin Sep}
         IN  << cur >> \o
             (IF rest = {} THEN << << >> >> ELSE SplitFrom(s, Sep, Min(rest), << >>))
    ELSE SplitFrom(s, Sep, i + 1, Append(cur, s[i]))

\* String.prototype.split(/[Sep]+/): the pieces between the maximal runs of
\* separator characters, empty first and last pieces included
split(s, Sep) == SplitFrom(s, Sep, 1, << >>)

\* Results of a call: a returned string or a thrown error
NoResult == [kind |-> "none", value |-> << >>, error |-> "", message |-> ""]

Return(v) == [kind |-> "return", value |-> v, error |-> "", message |-> ""]

Throw(e, m) == [kind |-> "throw", value |-> << >>, error |-> e, message |-> m]


(***************************************************************************)
(* toKebabCase                                                             *)
(***************************************************************************)
NullOrUndefinedMessage == "Invalid input: value is null or undefined."

NotAStringMessage == "Invalid input: value is not a string."

EmptyInputMessage == "Empty input: string is empty or contains only whitespace."

ContainsNumbersMessage == "Invalid input: string contains numbers."

\* /\d/.test(s)
TestDigit(s) == \E i \in DOMAIN s : s[i] \in Digit

RECURSIVE CamelScan(_, _)
CamelScan(s, i) ==
  IF i > Len(s) THEN << >>
  ELSE IF i < Len(s) /\ s[i] \in Lower /\ s[i + 1] \in Upper
    THEN << s[i], "-", s[i + 1] >> \o CamelScan(s, i + 2)
    ELSE << s[i] >> \o CamelScan(s, i + 1)

\* A replace without the g flag: only the first lowercase-uppercase pair
InsertCamelBoundaries_FirstOnly(s) ==
  LET hits == {i \in 1..(Len(s) - 1) : s[i] \in Lower /\ s[i + 1] \in Upper}
  IN  IF hits = {} THEN s
      ELSE SubSeq(s, 1, Min(hits)) \o << "-" >> \o SubSeq(s, Min(hits) + 1, Len(s))

\* trimmed.replace(/([a-z])([A-Z])/g, "$1-$2")
InsertCamelBoundaries(s) == CamelScan(s, 1)

RECURSIVE WhitespaceScan(_, _)
WhitespaceScan(s, i) ==
  IF i > Len(s) THEN << >>
  ELSE IF s[i] \in WhiteSpace
    THEN LET rest == {j \in i..Len(s) : s[j] \notin WhiteSpace}
         IN  << "-" >> \o (IF rest = {} THEN << >> ELSE WhitespaceScan(s, Min(rest)))
    ELSE << s[i] >> \o WhitespaceScan(s, i + 1)

\* s.replace(/\s+/g, "-")
ReplaceWhitespace(s) == WhitespaceScan(s, 1)

\* The hyphen left out of the character class: /[^a-z]/g
RemoveSpecial_NoHyphen(s) == SelectSeq(s, LAMBDA c : c \in Lower)

\* s.replace(/[^a-z-]/g, "")
RemoveSpecial(s) == SelectSeq(s, LAMBDA c : c \in Lower \cup {"-"})

RECURSIVE CollapseScan(_, _)
CollapseScan(s, i) ==
  IF i > Len(s) THEN << >>
  ELSE IF s[i] = "-" /\ i > 1 /\ s[i - 1] = "-" THEN CollapseScan(s, i + 1)
  ELSE << s[i] >> \o CollapseScan(s, i + 1)

\* s.replace(/-+/g, "-")
CollapseHyphens(s) == CollapseScan(s, 1)

\* Only the leading hyphens are stripped
TrimHyphens_LeadingOnly(s) ==
  LET keep == {i \in DOMAIN s : s[i] # "-"}
  IN  IF keep = {} THEN << >> ELSE SubSeq(s, Min(keep), Len(s))

\* s.replace(/^-+|-+$/g, "")
TrimHyphens(s) ==
  LET keep == {i \in DOMAIN s : s[i] # "-"}
  IN  IF keep = {} THEN << >> ELSE SubSeq(s, Min(keep), Max(keep))

\* The cleaned string is returned whatever its length
KebabResult_NoEmptyCheck(s) == Return(s)

\* if (s.length === 0) throw ...; return s;
KebabResult(s) ==
  IF Len(s) = 0 THEN Throw("Error", EmptyInputMessage) ELSE Return(s)

\* The special characters removed before the string is lowercased
KebabCleanup_RemoveBeforeLower(trimmed) ==
  TrimHyphens(CollapseHyphens(toLowerCase(RemoveSpecial(
    ReplaceWhitespace(InsertCamelBoundaries(trimmed))))))

\* The cleanup steps in the order of the source
KebabCleanup(trimmed) ==
  TrimHyphens(CollapseHyphens(RemoveSpecial(toLowerCase(
    ReplaceWhitespace(InsertCamelBoundaries(trimmed))))))

\* The digit test anchored at the start of the string: /^\d/
KebabDigitCheck_Anchored(trimmed) == trimmed # << >> /\ trimmed[1] \in Digit

\* if (/\d/.test(trimmed))
KebabDigitCheck(trimmed) == TestDigit(trimmed)

toKebabCase(in) ==
  IF in.type \in {"null", "undefined"} THEN Throw("Error", NullOrUndefinedMessage)
  ELSE IF in.type # "string" THEN Throw("Error", NotAStringMessage)
  ELSE LET trimmed == trim(in.chars)
       IN  IF Len(trimmed) = 0 THEN Throw("Error", EmptyInputMessage)
           ELSE IF KebabDigitCheck(trimmed) THEN Throw("Error", ContainsNumbersMessage)
           ELSE KebabResult(KebabCleanup(trimmed))

(***************************************************************************)
(* toDotCase and the strict PascalCase toCamelCase                         *)
(***************************************************************************)
MAX_SAFE_INPUT_LENGTH == 1000000

UndefinedMessage ==
  "Invalid input: value is undefined. Expected a non-empty string containing only letters and spaces."

NullMessage ==
  "Invalid input: value is null. Expected a non-empty string containing only letters and spaces."

InvalidTypeMessage(type) ==
  "Invalid input type: expected string but received " \o type \o "."

EmptyStringMessage ==
  "Invalid input: empty string. Provide a non-empty string containing only letters and spaces."

TooLargeMessage(n) ==
  "Input too large: length is " \o ToString(n) \o ". This exceeds the safe limit of "
    \o ToString(MAX_SAFE_INPUT_LENGTH) \o " characters and may cause out-of-memory errors."

WhitespaceOnlyMessage ==
  "Invalid input: string contains only whitespace. Provide a non-empty string containing only letters and spaces."

NumericMessage == "Invalid input: numeric characters are not allowed."

SpecialMessage ==
  "Invalid input: special characters (such as hyphens, underscores, or punctuation) are not allowed. Use letters and spaces only."

\* input.length: the characters and the whitespace that pads them
length(in) == Len(in.chars) + in.pad

\* /^[A-Za-z\s]+$/.test(s)
ValidPattern(s) ==
  s # << >> /\ \A i \in DOMAIN s : s[i] \in AsciiLetter \cup WhiteSpace

\* The size test written with >= : a string of exactly the limit is refused
StrictPrecheck_LimitExcluded(in) ==
  IF in.type = "undefined" THEN Throw("TypeError", UndefinedMessage)
  ELSE IF in.type = "null" THEN Throw("TypeError", NullMessage)
  ELSE IF in.type # "string" THEN Throw("TypeError", InvalidTypeMessage(in.type))
  ELSE IF length(in) = 0 THEN Throw("Error", EmptyStringMessage)
  ELSE IF length(in) >= MAX_SAFE_INPUT_LENGTH
    THEN Throw("RangeError", TooLargeMessage(length(in)))
  ELSE IF Len(trim(in.chars)) = 0 THEN Throw("Error", WhitespaceOnlyMessage)
  ELSE NoResult

\* The checks shared by both functions up to the trimmed string: the thrown
\* error, or NoResult when the input passes
StrictPrecheck(in) ==
  IF in.type = "undefined" THEN Throw("TypeError", UndefinedMessage)
  ELSE IF in.type = "null" THEN Throw("TypeError", NullMessage)
  ELSE IF in.type # "string" THEN Throw("TypeError", InvalidTypeMessage(in.type))
  ELSE IF length(in) = 0 THEN Throw("Error", EmptyStringMessage)
  ELSE IF length(in) > MAX_SAFE_INPUT_LENGTH
    THEN Throw("RangeError", TooLargeMessage(length(in)))
  ELSE IF Len(trim(in.chars)) = 0 THEN Throw("Error", WhitespaceOnlyMessage)
  ELSE NoResult

\* The special-character test made first, the digit test only afterwards
DotCharacterCheck_SpecialFirst(trimmed) ==
  IF ValidPattern(trimmed) THEN NoResult
  ELSE IF \E i \in DOMAIN trimmed :
            trimmed[i] \notin AsciiLetter \cup WhiteSpace \cup Digit
    THEN Throw("Error", SpecialMessage)
  ELSE Throw("Error", NumericMessage)

\* toDotCase: if (!validPattern.test(trimmed)) { if (/[0-9]/.test(trimmed)) ... }
DotCharacterCheck(trimmed) ==
  IF ValidPattern(trimmed) THEN NoResult
  ELSE IF TestDigit(trimmed) THEN Throw("Error", NumericMessage)
  ELSE Throw("Error", SpecialMessage)

\* toCamelCase: if (!validPattern.test(trimmed)) { if (/[0-9]/.test(trimmed)) ... }
CamelCharacterCheck(trimmed) ==
  IF ValidPattern(trimmed) THEN NoResult
  ELSE IF TestDigit(trimmed) THEN Throw("Error", NumericMessage)
  ELSE Throw("Error", SpecialMessage)

\* A split on every single whitespace character: /\s/
DotWords_SingleSplit(trimmed) ==
  LET RECURSIVE Pieces(_, _)
      Pieces(i, cur) ==
        IF i > Len(trimmed) THEN << cur >>
        ELSE IF trimmed[i] \in WhiteSpace THEN << cur >> \o Pieces(i + 1, << >>)
        ELSE Pieces(i + 1, Append(cur, trimmed[i]))
      ws == Pieces(1, << >>)
  IN  [k \in DOMAIN ws |-> toLowerCase(ws[k])]

\* trimmed.split(/\s+/).map((w) => w.toLowerCase())
DotWords(trimmed) ==
  LET ws == split(trimmed, WhiteSpace)
  IN  [k \in DOMAIN ws |-> toLowerCase(ws[k])]

toDotCase(in) ==
  LET pre == StrictPrecheck(in)
  IN  IF pre # NoResult THEN pre
      ELSE LET trimmed == trim(in.chars)
               bad == DotCharacterCheck(trimmed)
           IN  IF bad # NoResult THEN bad
               ELSE Return(join(DotWords(trimmed), << "." >>))

\* The rest of the word left as typed: no toLowerCase on it
Capitalize_RestAsTyped(w) ==
  IF Len(w) = 0 THEN << >>
  ELSE toUpperCase(charAt0(w)) \o slice1(w)

\* The rest of the word taken from index 2: w.slice(2)
Capitalize_SliceTwo(w) ==
  IF Len(w) = 0 THEN << >>
  ELSE toUpperCase(charAt0(w)) \o toLowerCase(slice1(slice1(w)))

\* (w) => { if (w.length === 0) return ''; first.toUpperCase() + rest.toLowerCase() }
Capitalize(w) ==
  IF Len(w) = 0 THEN << >>
  ELSE toUpperCase(charAt0(w)) \o toLowerCase(slice1(w))

\* trimmed.split(/\s+/) and words.map(...)
PascalWords(trimmed) ==
  LET ws == split(trimmed, WhiteSpace)
  IN  [k \in DOMAIN ws |-> Capitalize(ws[k])]

\* The strict PascalCase toCamelCase
toCamelCase(in) ==
  LET pre == StrictPrecheck(in)
  IN  IF pre # NoResult THEN pre
      ELSE LET trimmed == trim(in.chars)
               bad == CamelCharacterCheck(trimmed)
           IN  IF bad # NoResult THEN bad
               ELSE Return(join(PascalWords(trimmed), << >>))


(***************************************************************************)
(* The permissive functions: Unicode PascalCase and ASCII camelCase        *)
(***************************************************************************)
\* String(text) for the values the model passes
StringOf(in) == in.chars

\* s.split(/[^\p{L}\p{N}]+/u).filter(Boolean)
UnicodeParts(s) ==
  LET Sep == {c \in Range(s) : c \notin UnicodeLetter \cup UnicodeNumber}
  IN  SelectSeq(split(s, Sep), LAMBDA p : p # << >>)

\* The first character uppercased, the part not lowercased
CapitalizeLowered_NoLower(p) == toUpperCase(charAt0(p)) \o slice1(p)

\* p => { const lower = p.toLowerCase(); return lower.charAt(0).toUpperCase() + lower.slice(1); }
CapitalizeLowered(p) ==
  LET lower == toLowerCase(p)
  IN  toUpperCase(charAt0(lower)) \o slice1(lower)

\* The permissive Unicode PascalCase toCamelCase
toCamelCaseUnicode(in) ==
  IF in.type \in {"null", "undefined"} THEN Return(<< >>)
  ELSE LET s == trim(StringOf(in))
       IN  IF s = << >> THEN Return(<< >>)
           ELSE LET parts == UnicodeParts(s)
                IN  Return(join([k \in DOMAIN parts |-> CapitalizeLowered(parts[k])], << >>))

RECURSIVE RunScan(_, _, _)
RunScan(s, i, cur) ==
  IF i > Len(s) THEN (IF cur = << >> THEN << >> ELSE << cur >>)
  ELSE IF s[i] \in AsciiLetter \cup Digit THEN RunScan(s, i + 1, Append(cur, s[i]))
  ELSE (IF cur = << >> THEN << >> ELSE << cur >>) \o RunScan(s, i + 1, << >>)

\* s.match(/[A-Za-z0-9]+/g): null when nothing matches, else the runs
MatchAsciiRuns(s) ==
  LET runs == RunScan(s, 1, << >>)
  IN  [isNull |-> runs = << >>, words |-> runs]

\* Every word capitalized, the first one included
CamelRender_CapitalizeAll(m) ==
  IF m.isNull
    THEN Throw("TypeError", "Cannot read properties of null (reading 'map')")
    ELSE Return(join([k \in DOMAIN m.words |-> CapitalizeLowered(m.words[k])], << >>))

\* words.map((w, i) => ...).join(''); calling map on null throws a TypeError
CamelRender(m) ==
  IF m.isNull
    THEN Throw("TypeError", "Cannot read properties of null (reading 'map')")
    ELSE Return(join([k \in DOMAIN m.words |->
                        IF k = 1 THEN toLowerCase(m.words[k])
                        ELSE CapitalizeLowered(m.words[k])], << >>))

\* The function without its 'if (!words) return' guard
toCamelCaseAscii_NoNullGuard(in) ==
  IF in.type \in {"null", "undefined"} THEN Return(<< >>)
  ELSE CamelRender(MatchAsciiRuns(StringOf(in)))

\* The permissive ASCII camelCase toCamelCase
toCamelCaseAscii(in) ==
  IF in.type \in {"null", "undefined"} THEN Return(<< >>)
  ELSE LET words == MatchAsciiRuns(StringOf(in))
       IN  IF words.isNull THEN Return(<< >>) ELSE CamelRender(words)

(***************************************************************************)
(* The tasks server                                                        *)
(***************************************************************************)
\* Accepted POSTs the model follows
MaxPosts == 3

\* const tasks = [...]
InitialTasks ==
  << "Write a diary entry from the future",
     "Create a time machine from a cardboard box",
     "Plan a trip to the dinosaurs",
     "Draw a futuristic city",
     "List items to bring on a time-travel adventure" >>

\* A value of req.body.text: its JavaScript type and its value
Value(type, str, num) == [type |-> type, str |-> str, num |-> num]

\* The values of 'text' the clients send (undefined: the key is missing)
TextValues ==
  { Value("undefined", "", 0), Value("object", "null", 0),
    Value("number", "", 0), Value("number", "", 7),
    Value("boolean", "true", 0), Value("object", "[]", 0),
    Value("string", "", 0), Value("string", " ", 0),
    Value("string", "Feed the cat", 0), Value("string", "Draw a futuristic city", 0) }

\* !text
Falsy(v) ==
  \/ v.type = "undefined"
  \/ v.type = "object" /\ v.str = "null"
  \/ v.type = "number" /\ v.num = 0
  \/ v.type = "boolean" /\ v.str = "false"
  \/ v.type = "string" /\ v.str = ""

\* typeof text
TypeOf(v) == v.type

\* Only the type is tested: the empty string passes
InvalidTaskPayload_TypeOnly(text) == TypeOf(text) # "string"

\* !text || typeof text !== 'string'
InvalidTaskPayload(text) == Falsy(text) \/ TypeOf(text) # "string"

\* The new task put in front of the list: tasks.unshift(text)
Push_AtFront(list, text) == << text >> \o list

\* tasks.push(text)
Push(list, text) == Append(list, text)

Response(route, status, message, list) ==
  [route |-> route, status |-> status, message |-> message, tasks |-> list]

NoResponse == Response("none", 0, "", << >>)

TasksInit ==
  /\ tasks = InitialTasks
  /\ taskReq = Value("undefined", "", 0)
  /\ taskRes = NoResponse
  /\ accepted = << >>

\* app.get('/')
GetRoot ==
  /\ taskRes' = Response("GET /", 200, "Hello World", << >>)
  /\ UNCHANGED <<tasks, taskReq, accepted>>

\* app.post('/tasks')
PostTasks ==
  \E text \in TextValues :
    /\ InvalidTaskPayload(text) \/ Len(tasks) < Len(InitialTasks) + MaxPosts
    /\ taskReq' = text
    /\ IF InvalidTaskPayload(text)
         THEN /\ taskRes' = Response("POST /tasks", 400, "Invalid task payload", << >>)
              /\ tasks' = tasks
         ELSE /\ tasks' = Push(tasks, text.str)
              /\ taskRes' = Response("POST /tasks", 200, "Task added successfully", << >>)
    /\ accepted' = IF taskRes'.status = 200 THEN Append(accepted, text.str) ELSE accepted

\* app.get('/tasks')
GetTasks ==
  /\ taskRes' = Response("GET /tasks", 200, "", tasks)
  /\ UNCHANGED <<tasks, taskReq, accepted>>

(***************************************************************************)
(* The comments router                                                     *)
(***************************************************************************)
\* Requests the model follows, each in its own slot
MaxRequests == 2

\* The Comment documents of the collection at the start
Comments == {"c1", "c2"}

\* comment.seller
Seller == [c \in Comments |-> IF c = "c1" THEN "u1" ELSE "u2"]

\* comment.item
Item == [c \in Comments |-> "i1"]

\* req.user._id of the authenticated users
Users == {"u1", "u2"}

\* req.params.commentId: the ids of the comments and an id no comment has
CommentIds == Comments \cup {"c9"}

\* req.params.itemId
ItemIds == {"i1", "i2"}

Slots == 1..MaxRequests

Request(route, at, user, id, found, status, body) ==
  [route |-> route, at |-> at, user |-> user, id |-> id, found |-> found,
   status |-> status, body |-> body]

IdleRequest == Request("none", "idle", "", "", FALSE, 0, {})

CommentsInit ==
  /\ store = Comments
  /\ reqs = [s \in Slots |-> IdleRequest]
  /\ removers = {}

\* Any user passes the check
IsSeller_Anyone(c, u) == TRUE

\* comment.seller.toString() === req.user._id.toString()
IsSeller(c, u) == Seller[c] = u

\* router.get: Comment.find({ item }) and the response, one read of the collection
GetComments(s) ==
  \E u \in Users, i \in ItemIds :
    /\ reqs[s].at = "idle"
    /\ reqs' = [reqs EXCEPT ![s] =
                  Request("GET", "done", u, i, FALSE, 200,
                          {c \in store : Item[c] = i})]
    /\ UNCHANGED <<store, removers>>

\* router.delete up to its first await: Comment.findById(...).exec() is issued
DeleteStart(s) ==
  \E u \in Users, c \in CommentIds :
    /\ reqs[s].at = "idle"
    /\ reqs' = [reqs EXCEPT ![s] = Request("DELETE", "findById", u, c, FALSE, 0, {})]
    /\ UNCHANGED <<store, removers>>

\* findById resolves; the handler answers 404 or 403, or issues comment.remove()
DeleteFound(s) ==
  LET r == reqs[s]
      comment == r.id \in store
  IN  /\ r.at = "findById"
      /\ reqs' = [reqs EXCEPT ![s] =
                    IF ~comment
                      THEN [r EXCEPT !.at = "done", !.status = 404,
                                     !.body = {"Comment not found"}]
                    ELSE IF ~IsSeller(r.id, r.user)
                      THEN [r EXCEPT !.at = "done", !.found = TRUE, !.status = 403,
                                     !.body = {"You are not authorized to delete this comment"}]
                    ELSE [r EXCEPT !.at = "remove", !.found = TRUE]]
      /\ UNCHANGED <<store, removers>>

\* comment.remove() settles and the handler answers. On a document that is
\* still stored it deletes it and the handler answers 200. On a document
\* another request has deleted meanwhile, Mongoose's delete by _id matches
\* nothing: it either resolves all the same (answer 200) or rejects, and the
\* catch forwards the error to next(err) (answer 500).
DeleteRemoved(s) ==
  LET r == reqs[s]
  IN  /\ r.at = "remove"
      /\ \E resolved \in IF r.id \in store THEN {TRUE} ELSE BOOLEAN :
           IF resolved
             THEN /\ store' = store \ {r.id}
                  /\ removers' = removers \cup {<< r.id, r.user >>}
                  /\ reqs' = [reqs EXCEPT ![s] =
                                [r EXCEPT !.at = "done", !.status = 200,
                                          !.body = {"Comment deleted successfully"}]]
             ELSE /\ reqs' = [reqs EXCEPT ![s] =
                                [r EXCEPT !.at = "done", !.status = 500,
                                          !.body = {"next(err)"}]]
                  /\ UNCHANGED <<store, removers>>

(***************************************************************************)
(* Inputs                                                                  *)
(***************************************************************************)
\* Longest string drawn over the full alphabet
MaxLen == 3

\* Longest string drawn over letters and the space
MaxWordLen == 4

Alphabet == {"a", "b", "A", "B", " ", "1", "-", "_", "!", "U+212A", "U+00E9"}

WordAlphabet == {"a", "b", "A", "B", " "}

Strings(A, n) == UNION {[1..k -> A] : k \in 0..n}

\* A string value: its characters, followed by pad space characters. A very
\* long string is kept as its content and the number of spaces that pad it
\* at the end; trim strips that padding, a run match or a split ignores it,
\* and only the raw length counts it.
Str(s) == [type |-> "string", chars |-> s, pad |-> 0]

\* Inputs written out in the source: the self-test of toKebabCase and the
\* examples of the doc comments
SourceExamples ==
  { << "a", "b", "c", "-", "D", "e", "f", "_", "g", "h", "i", "!" >>,
    << "H", "e", "l", "l", "o", "W", "o", "r", "l", "d", "E", "x", "a", "m", "p", "l", "e" >>,
    << "l", "u", "c", "c", "a", "T", "e", "a", "c", "h", "e", "r" >>,
    << "L", "u", "c", "c", "a", " ", "T", "e", "a", "c", "h", "e", "r" >>,
    << "l", "u", "c", "c", "a", "1", "2", "T", "e", "a", "c", "h", "e", "r" >>,
    << "M", "i", "X", "e", "D", " ", "C", "a", "s", "e", "-", "E", "x", "a", "m", "p", "l", "e" >>,
    << "@", "#", "$", "%", "^", "&", "*", "(", ")" >>,
    << " ", " ", "L", "U", "C", "C", "A", " ", "t", "e", "a", "c", "h", "e", "r", " " >>,
    << "m", "u", "l", "t", "i", "p", "l", "e", " ", " ", " ", "s", "p", "a", "c", "e", "s" >>,
    << "S", "C", "R", "E", "E", "N", "_", "N", "A", "M", "E" >>,
    << "l", "u", "c", "c", "a", "-", "T", "e", "a", "c", "h", "e", "r" >>,
    << "a", "B", "c", "D" >>,
    << "a", "b", "c", "-", "1", "!" >>,
    << "U+0130", "a" >>,
    << "U+0663" >>,
    << "a", "l", "r", "e", "a", "d", "y", "-", "k", "e", "b", "a", "b", "-", "c", "a", "s", "e" >>,
    << "u", "s", "e", "r", "_", "i", "d" >>,
    << "H", "T", "T", "P", "_", "S", "T", "A", "T", "U", "S", "_", "C", "O", "D", "E" >> }

Inputs ==
  {[type |-> "null", chars |-> << "n", "u", "l", "l" >>, pad |-> 0],
   [type |-> "undefined", chars |-> << "u", "n", "d", "e", "f", "i", "n", "e", "d" >>, pad |-> 0],
   [type |-> "number", chars |-> << "1", "2" >>, pad |-> 0]}
    \cup {Str(s) : s \in Strings(Alphabet, MaxLen)}
    \cup {Str(s) : s \in Strings(WordAlphabet, MaxWordLen)}
    \cup {Str(s) : s \in SourceExamples}

(***************************************************************************)
(* The caller                                                              *)
(***************************************************************************)
Functions == {"toKebabCase", "toDotCase", "toCamelCase", "toCamelCaseUnicode", "toCamelCaseAscii"}

Apply(f, in) ==
  CASE f = "toKebabCase" -> toKebabCase(in)
    [] f = "toDotCase" -> toDotCase(in)
    [] f = "toCamelCase" -> toCamelCase(in)
    [] f = "toCamelCaseUnicode" -> toCamelCaseUnicode(in)
    [] f = "toCamelCaseAscii" -> toCamelCaseAscii(in)

Init ==
  /\ input \in Inputs
  /\ arg = input
  /\ fn = "none"
  /\ out = NoResult
  /\ prevFn = "none"
  /\ prevOut = NoResult
  /\ pc = "ready"
  /\ TasksInit
  /\ CommentsInit

\* A first call of f on the input
Call(f) ==
  /\ pc = "ready"
  /\ fn' = f
  /\ arg' = input
  /\ out' = Apply(f, input)
  /\ pc' = "called"
  /\ UNCHANGED <<input, prevFn, prevOut>>
  /\ UNCHANGED <<taskVars, commentVars>>

\* After f, a call of g on the same input, the first result kept
CallOnSameInput(f, g) ==
  /\ pc = "called"
  /\ fn = f
  /\ prevFn' = f
  /\ prevOut' = out
  /\ fn' = g
  /\ arg' = input
  /\ out' = Apply(g, input)
  /\ pc' = "compared"
  /\ UNCHANGED input
  /\ UNCHANGED <<taskVars, commentVars>>

\* After f returned a string, a call of f on that string
CallOnResult(f) ==
  /\ pc = "called"
  /\ fn = f
  /\ out.kind = "return"
  /\ prevFn' = f
  /\ prevOut' = out
  /\ fn' = f
  /\ arg' = Str(out.value)
  /\ out' = Apply(f, Str(out.value))
  /\ pc' = "composed"
  /\ UNCHANGED input
  /\ UNCHANGED <<taskVars, commentVars>>

CallToKebabCase == Call("toKebabCase")

CallToDotCase == Call("toDotCase")

CallToCamelCase == Call("toCamelCase")

CallToCamelCaseUnicode == Call("toCamelCaseUnicode")

CallToCamelCaseAscii == Call("toCamelCaseAscii")

DotThenPascal == CallOnSameInput("toDotCase", "toCamelCase")

PascalThenUnicodePascal == CallOnSameInput("toCamelCase", "toCamelCaseUnicode")

KebabThenDot == CallOnSameInput("toKebabCase", "toDotCase")

PascalAgain == CallOnResult("toCamelCase")

KebabAgain == CallOnResult("toKebabCase")

Next ==
  \/ CallToKebabCase
  \/ CallToDotCase
  \/ CallToCamelCase
  \/ CallToCamelCaseUnicode
  \/ CallToCamelCaseAscii
  \/ DotThenPascal
  \/ PascalThenUnicodePascal
  \/ KebabThenDot
  \/ PascalAgain
  \/ KebabAgain

Spec == Init /\ [][Next]_vars

\* No conversion function is being called
CallerIdle ==
  /\ input = Str(<< >>)
  /\ arg = input
  /\ fn = "none"
  /\ out = NoResult
  /\ prevFn = "none"
  /\ prevOut = NoResult
  /\ pc = "ready"

\* Characters a very long input has beyond the limit, at most
MaxOver == 2

\* Longest content of a padded input
MaxContentLen == 2

\* The content s followed by whitespace up to the raw length n
Padded(s, n) == [type |-> "string", chars |-> s, pad |-> n - Len(s)]

\* Raw lengths around MAX_SAFE_INPUT_LENGTH: one below it, the limit itself,
\* and a few characters beyond it
LongLengths == (MAX_SAFE_INPUT_LENGTH - 1)..(MAX_SAFE_INPUT_LENGTH + MaxOver)

\* Inputs of every content (whitespace, digits, symbols, letters), as typed
\* and padded with whitespace to a raw length around the limit
SizeInputs ==
  {Str(s) : s \in Strings(Alphabet, MaxContentLen)}
    \cup {Padded(s, n) : s \in Strings(Alphabet, MaxContentLen), n \in LongLengths}

\* A caller of toDotCase and the strict toCamelCase that also passes very
\* long strings
InitSize ==
  /\ input \in SizeInputs
  /\ arg = input
  /\ fn = "none"
  /\ out = NoResult
  /\ prevFn = "none"
  /\ prevOut = NoResult
  /\ pc = "ready"
  /\ TasksInit
  /\ CommentsInit

NextSize ==
  \/ CallToDotCase
  \/ CallToCamelCase

SpecSize == InitSize /\ [][NextSize]_vars

\* The tasks server and its clients
InitTasks == CallerIdle /\ TasksInit /\ CommentsInit

HandleGetRoot == GetRoot /\ UNCHANGED <<callerVars, commentVars>>

HandlePostTasks == PostTasks /\ UNCHANGED <<callerVars, commentVars>>

HandleGetTasks == GetTasks /\ UNCHANGED <<callerVars, commentVars>>

NextTasks ==
  \/ HandleGetRoot
  \/ HandlePostTasks
  \/ HandleGetTasks

SpecTasks == InitTasks /\ [][NextTasks]_vars

\* The comments router and its clients; the handlers of the requests in
\* flight interleave at their awaits
InitComments == CallerIdle /\ TasksInit /\ CommentsInit

HandleGetComments ==
  \E s \in Slots : GetComments(s) /\ UNCHANGED <<callerVars, taskVars>>

HandleDeleteStart ==
  \E s \in Slots : DeleteStart(s) /\ UNCHANGED <<callerVars, taskVars>>

HandleDeleteFound ==
  \E s \in Slots : DeleteFound(s) /\ UNCHANGED <<callerVars, taskVars>>

HandleDeleteRemoved ==
  \E s \in Slots : DeleteRemoved(s) /\ UNCHANGED <<callerVars, taskVars>>

NextComments ==
  \/ HandleGetComments
  \/ HandleDeleteStart
  \/ HandleDeleteFound
  \/ HandleDeleteRemoved

SpecComments == InitComments /\ [][NextComments]_vars


(***************************************************************************)
(* Properties                                                              *)
(***************************************************************************)
Count(s, S) == Cardinality({i \in DOMAIN s : s[i] \in S})

IsStringArg == arg.type = "string"

\* The argument of the last call, trimmed
Trimmed == trim(arg.chars)

\* The argument passes toKebabCase's validation: a string, not empty after
\* trimming, without a digit
KebabAccepts == IsStringArg /\ Trimmed # << >> /\ Count(Trimmed, Digit) = 0

\* ^[a-z]+(-[a-z]+)*$
KebabPattern(v) ==
  /\ v # << >>
  /\ \A i \in DOMAIN v : v[i] \in Lower \cup {"-"}
  /\ v[1] # "-" /\ v[Len(v)] # "-"
  /\ \A i \in 1..(Len(v) - 1) : ~(v[i] = "-" /\ v[i + 1] = "-")

\* C1: for every input that toKebabCase's validation accepts, the call
\* returns a string matching ^[a-z]+(-[a-z]+)*$ or throws the EmptyInput
\* error; it returns no other string and throws nothing else.
C1_KebabOutputGrammar ==
  (fn = "toKebabCase" /\ KebabAccepts) =>
    \/ out.kind = "return" /\ KebabPattern(out.value)
    \/ out = Throw("Error", EmptyInputMessage)

\* A call whose argument starts with a hyphen and whose result has only an
\* inner hyphen
C1_Witness ==
  /\ fn = "toKebabCase" /\ KebabAccepts
  /\ arg.chars[1] = "-"
  /\ out.kind = "return"
  /\ Count(out.value, {"-"}) > 0

\* The argument reaches the character-class test of toDotCase / toCamelCase
ReachesCharacterCheck ==
  /\ IsStringArg
  /\ length(arg) <= MAX_SAFE_INPUT_LENGTH
  /\ Trimmed # << >>

FailsLettersAndWhitespace ==
  \E i \in DOMAIN Trimmed : Trimmed[i] \notin AsciiLetter \cup WhiteSpace

\* C2: in toDotCase and the strict toCamelCase, when the trimmed input fails
\* the letters-and-whitespace test and holds a digit 0-9 the error is the
\* numeric one, also when special characters are present; the
\* special-characters error is raised exactly when the test fails and no
\* digit is present.
C2_DigitPriority ==
  fn \in {"toDotCase", "toCamelCase"} =>
    /\ (ReachesCharacterCheck /\ FailsLettersAndWhitespace /\ Count(Trimmed, Digit) > 0)
         => out = Throw("Error", NumericMessage)
    /\ (out.kind = "throw" /\ out.message = SpecialMessage)
         <=> (ReachesCharacterCheck /\ FailsLettersAndWhitespace /\ Count(Trimmed, Digit) = 0)

\* A digit after a special character, rejected as numeric
C2_Witness ==
  /\ fn = "toCamelCase"
  /\ ReachesCharacterCheck
  /\ \E i, j \in DOMAIN Trimmed :
       i < j /\ Trimmed[i] \in {"-", "_", "!"} /\ Trimmed[j] \in Digit
  /\ out = Throw("Error", NumericMessage)

\* C3: toKebabCase throws 'Invalid input: string contains numbers.' for every
\* string that is non-empty after trimming and contains a digit, wherever the
\* digit is and also when the input has no letter; such an input never
\* returns a value and never gets the EmptyInput error.
C3_DigitsRejectedBeforeCleanup ==
  (fn = "toKebabCase" /\ IsStringArg /\ Trimmed # << >> /\ Count(Trimmed, Digit) > 0)
    => out = Throw("Error", ContainsNumbersMessage)

\* A digit that is not the first character, in an input without any letter
C3_Witness ==
  /\ fn = "toKebabCase" /\ IsStringArg
  /\ Len(Trimmed) > 1
  /\ Trimmed[1] \notin Digit
  /\ Count(Trimmed, Digit) > 0
  /\ Count(Trimmed, UnicodeLetter) = 0
  /\ out = Throw("Error", ContainsNumbersMessage)

\* C4 as stated: every digit-free input whose trimmed form is non-empty and
\* which contains no ASCII letter throws the EmptyInput error.
C4_NoAsciiLetterThrowsEmpty ==
  (fn = "toKebabCase" /\ KebabAccepts /\ Count(Trimmed, AsciiLetter) = 0)
    => out = Throw("Error", EmptyInputMessage)

\* No character of the trimmed argument lowercases to a string with an
\* ASCII letter in it
NoLetterAfterLowercasing ==
  \A i \in DOMAIN Trimmed : Count(LowerChar(Trimmed[i]), Lower) = 0

\* C4 as amended: every digit-free input whose trimmed form is non-empty and
\* which contains no character whose lowercase form holds an ASCII letter
\* throws the EmptyInput error, with the message of the empty input.
C4_NoLetterAfterLowercasingThrowsEmpty ==
  (fn = "toKebabCase" /\ KebabAccepts /\ NoLetterAfterLowercasing)
    => out = Throw("Error", EmptyInputMessage)

\* Symbols, an underscore and a hyphen only: non-empty trimmed, yet EmptyInput
C4_Witness ==
  /\ fn = "toKebabCase" /\ KebabAccepts /\ NoLetterAfterLowercasing
  /\ Count(Trimmed, {"_"}) > 0
  /\ Count(Trimmed, {"-"}) > 0
  /\ out = Throw("Error", EmptyInputMessage)

\* The tokenizer of the called permissive function finds a word in the argument
HasWord ==
  /\ IsStringArg
  /\ IF fn = "toCamelCaseUnicode"
       THEN Count(arg.chars, UnicodeLetter \cup UnicodeNumber) > 0
       ELSE Count(arg.chars, AsciiLetter \cup Digit) > 0

\* C5: the two permissive functions never throw for null, undefined or a
\* string; they return the empty string for null, undefined, the empty or
\* whitespace-only string and any string without a word, and a non-empty
\* string otherwise.
C5_PermissiveNeverThrows ==
  (fn \in {"toCamelCaseUnicode", "toCamelCaseAscii"}
     /\ arg.type \in {"null", "undefined", "string"})
    => /\ out.kind = "return"
       /\ (out.value = << >>) <=> ~HasWord

\* A non-empty string in which the ASCII tokenizer finds no word
C5_Witness ==
  /\ fn = "toCamelCaseAscii" /\ IsStringArg
  /\ Trimmed # << >>
  /\ ~HasWord
  /\ out = Return(<< >>)

\* ^[a-z]+(\.[a-z]+)*$
DotPattern(v) ==
  /\ v # << >>
  /\ \A i \in DOMAIN v : v[i] \in Lower \cup {"."}
  /\ v[1] # "." /\ v[Len(v)] # "."
  /\ \A i \in 1..(Len(v) - 1) : ~(v[i] = "." /\ v[i + 1] = ".")

\* The positions where a maximal non-whitespace span of s starts
SpanStarts(s) ==
  {i \in DOMAIN s : s[i] \notin WhiteSpace /\ (i = 1 \/ s[i - 1] \in WhiteSpace)}

\* The maximal non-whitespace spans of s, in their order in s
Spans(s) ==
  LET starts == SpanStarts(s)
      StartOf(k) == CHOOSE i \in starts : Cardinality({j \in starts : j < i}) = k - 1
      EndOf(i) == Min({j \in i..Len(s) : j = Len(s) \/ s[j + 1] \in WhiteSpace})
  IN  [k \in 1..Cardinality(starts) |-> SubSeq(s, StartOf(k), EndOf(StartOf(k)))]

\* The argument is accepted by toDotCase and the strict toCamelCase
StrictAccepts ==
  /\ ReachesCharacterCheck
  /\ ~FailsLettersAndWhitespace

\* C6: for every input toDotCase accepts, the result is the maximal
\* non-whitespace spans of the input, in order, each lowercased, joined with
\* one '.', and matches ^[a-z]+(\.[a-z]+)*$.
C6_DotCaseSpans ==
  (fn = "toDotCase" /\ StrictAccepts) =>
    /\ out.kind = "return"
    /\ DotPattern(out.value)
    /\ LET spans == Spans(arg.chars)
       IN  out.value = join([k \in DOMAIN spans |-> toLowerCase(spans[k])], << "." >>)

\* Leading whitespace and a run of two whitespace characters inside
C6_Witness ==
  /\ fn = "toDotCase" /\ StrictAccepts
  /\ \E i \in 1..(Len(Trimmed) - 1) :
       Trimmed[i] \in WhiteSpace /\ Trimmed[i + 1] \in WhiteSpace
  /\ Count(arg.chars, Upper) > 0
  /\ out.kind = "return"
  /\ Count(out.value, {"."}) = 1


\* The input is composed only of ASCII letters and single spaces
LettersAndSingleSpaces ==
  /\ input.type = "string"
  /\ \A i \in DOMAIN input.chars : input.chars[i] \in AsciiLetter \cup {" "}
  /\ \A i \in 1..(Len(input.chars) - 1) :
       ~(input.chars[i] = " " /\ input.chars[i + 1] = " ")

\* C7: on a string of letters and single spaces, toDotCase and the strict
\* PascalCase toCamelCase see the same words: the dot.case output without
\* its dots is the lowercased PascalCase output, and there are as many
\* dot-separated segments as capitalized words (when the input has no word,
\* both throw the same error).
C7_DotAndPascalSameWords ==
  (pc = "compared" /\ prevFn = "toDotCase" /\ fn = "toCamelCase"
     /\ LettersAndSingleSpaces)
    => IF Count(input.chars, AsciiLetter) = 0
         THEN out.kind = "throw" /\ out = prevOut
         ELSE /\ prevOut.kind = "return" /\ out.kind = "return"
              /\ SelectSeq(prevOut.value, LAMBDA c : c # ".") = toLowerCase(out.value)
              /\ Count(prevOut.value, {"."}) + 1 = Count(out.value, Upper)

\* Two words, one of them with an inner capital
C7_Witness ==
  /\ pc = "compared" /\ prevFn = "toDotCase" /\ fn = "toCamelCase"
  /\ LettersAndSingleSpaces
  /\ \E i \in 2..Len(input.chars) :
       input.chars[i] \in Upper /\ input.chars[i - 1] \in AsciiLetter
  /\ Count(prevOut.value, {"."}) = 1
  /\ out.kind = "return"

\* The input is valid for the strict toCamelCase
ValidPascalInput ==
  /\ input.type = "string"
  /\ length(input) <= MAX_SAFE_INPUT_LENGTH
  /\ trim(input.chars) # << >>
  /\ \A i \in DOMAIN input.chars : input.chars[i] \in AsciiLetter \cup WhiteSpace

\* C8 as stated: for every valid input x whose first conversion holds no
\* whitespace, toCamelCase(toCamelCase(x)) = toCamelCase(x).
C8_PascalIdempotent ==
  (pc = "composed" /\ fn = "toCamelCase" /\ ValidPascalInput
     /\ Count(prevOut.value, WhiteSpace) = 0)
    => out = prevOut

\* C8 as amended: for every valid input x that is a single word (its trimmed
\* form holds no whitespace), toCamelCase(toCamelCase(x)) = toCamelCase(x).
C8_PascalIdempotentOnOneWord ==
  (pc = "composed" /\ fn = "toCamelCase" /\ ValidPascalInput
     /\ Count(trim(input.chars), WhiteSpace) = 0)
    => out = prevOut

\* A single word that the first conversion changes and the second keeps
C8_Witness ==
  /\ pc = "composed" /\ fn = "toCamelCase" /\ ValidPascalInput
  /\ Count(trim(input.chars), WhiteSpace) = 0
  /\ Len(trim(input.chars)) > 2
  /\ prevOut.value # trim(input.chars)
  /\ out = prevOut

\* C9: an underscore between two letter runs is rendered as a hyphen:
\* 'abc-Def_ghi!' gives 'abc-def-ghi', and x_y gives x-y for letters x, y.
C9_UnderscoreIsWordBoundary ==
  fn = "toKebabCase" =>
    /\ arg = Str(<< "a", "b", "c", "-", "D", "e", "f", "_", "g", "h", "i", "!" >>)
         => out = Return(<< "a", "b", "c", "-", "d", "e", "f", "-", "g", "h", "i" >>)
    /\ (IsStringArg /\ Len(arg.chars) = 3 /\ arg.chars[1] \in Lower
          /\ arg.chars[2] = "_" /\ arg.chars[3] \in Lower)
         => out = Return(<< arg.chars[1], "-", arg.chars[3] >>)

\* The number of ASCII letters that the first i characters of s leave in the
\* cleaned string
LettersUpTo(s, i) ==
  Cardinality({j \in 1..i : Count(LowerChar(s[j]), Lower) > 0})

\* The position in v of its k-th character that is not a hyphen
LetterPosition(v, k) ==
  CHOOSE p \in DOMAIN v :
    v[p] # "-" /\ Cardinality({q \in 1..p : v[q] # "-"}) = k

C11_KebabIdempotent ==
  /\ (pc = "called" /\ fn = "toKebabCase" /\ IsStringArg /\ KebabPattern(arg.chars))
       => out = Return(arg.chars)
  /\ (pc = "composed" /\ fn = "toKebabCase")
       => out.kind = "return" /\ out = prevOut

\* A second call on a result with a hyphen, from an input the first call changed
C11_Witness ==
  /\ pc = "composed" /\ fn = "toKebabCase"
  /\ input.chars # prevOut.value
  /\ Count(prevOut.value, {"-"}) > 0
  /\ out = prevOut

\* The maximal runs of characters of W in s, in their order in s
RunsOf(s, W) ==
  LET starts == {i \in DOMAIN s : s[i] \in W /\ (i = 1 \/ s[i - 1] \notin W)}
      StartOf(k) == CHOOSE i \in starts : Cardinality({j \in starts : j < i}) = k - 1
      EndOf(i) == Min({j \in i..Len(s) : j = Len(s) \/ s[j + 1] \notin W})
  IN  [k \in 1..Cardinality(starts) |-> SubSeq(s, StartOf(k), EndOf(StartOf(k)))]

\* C12: the ASCII camelCase toCamelCase takes the maximal runs of ASCII
\* letters and digits in order, renders the first run lowercase and every
\* later run lowercase with its first character uppercased, and concatenates
\* them; the output holds only ASCII letters and digits and does not start
\* with an uppercase letter.
C12_AsciiCamelCase ==
  (fn = "toCamelCaseAscii" /\ IsStringArg) =>
    LET runs == RunsOf(arg.chars, AsciiLetter \cup Digit)
        Rendered(k) ==
          LET lower == toLowerCase(runs[k])
          IN  IF k = 1 THEN lower ELSE toUpperCase(<< lower[1] >>) \o Tail(lower)
    IN  /\ out = Return(join([k \in DOMAIN runs |-> Rendered(k)], << >>))
        /\ \A i \in DOMAIN out.value : out.value[i] \in AsciiLetter \cup Digit
        /\ out.value # << >> => out.value[1] \notin Upper

\* Two runs separated by a non-ASCII letter, the first starting with a capital
C12_Witness ==
  /\ fn = "toCamelCaseAscii" /\ IsStringArg
  /\ Len(arg.chars) = 3
  /\ arg.chars[1] \in Upper
  /\ arg.chars[2] = "U+00E9"
  /\ arg.chars[3] \in Lower
  /\ out.kind = "return"
  /\ Len(out.value) = 2
  /\ out.value[1] \in Lower /\ out.value[2] \in Upper

\* C17: for every input the strict PascalCase toCamelCase accepts, the
\* permissive Unicode PascalCase toCamelCase returns the same string.
C17_PascalImplementationsAgree ==
  (pc = "compared" /\ prevFn = "toCamelCase" /\ fn = "toCamelCaseUnicode"
     /\ ValidPascalInput)
    => prevOut.kind = "return" /\ out = prevOut

\* Two words with capitals after the first letter
C17_Witness ==
  /\ pc = "compared" /\ prevFn = "toCamelCase" /\ fn = "toCamelCaseUnicode"
  /\ ValidPascalInput
  /\ \E i \in 2..Len(input.chars) :
       input.chars[i] \in Upper /\ input.chars[i - 1] \in AsciiLetter
  /\ Count(trim(input.chars), WhiteSpace) > 0
  /\ out = prevOut

\* No lowercase letter of the input is immediately followed by an uppercase one
NoCamelBoundary ==
  \A i \in 1..(Len(input.chars) - 1) :
    ~(input.chars[i] \in Lower /\ input.chars[i + 1] \in Upper)

\* C18: for every input of ASCII letters and whitespace, non-empty after
\* trim, without a lowercase letter immediately followed by an uppercase
\* one, toKebabCase(x) is toDotCase(x) with every '.' replaced by '-'.
C18_KebabIsDotWithHyphens ==
  (pc = "compared" /\ prevFn = "toKebabCase" /\ fn = "toDotCase"
     /\ ValidPascalInput /\ NoCamelBoundary)
    => /\ prevOut.kind = "return" /\ out.kind = "return"
       /\ prevOut.value = [i \in DOMAIN out.value |->
                             IF out.value[i] = "." THEN "-" ELSE out.value[i]]

\* Two words with capitals, separated by two whitespace characters
C18_Witness ==
  /\ pc = "compared" /\ prevFn = "toKebabCase" /\ fn = "toDotCase"
  /\ ValidPascalInput /\ NoCamelBoundary
  /\ Count(input.chars, Upper) > 0
  /\ \E i \in 1..(Len(input.chars) - 1) :
       input.chars[i] \in WhiteSpace /\ input.chars[i + 1] \in WhiteSpace
  /\ Count(prevOut.value, {"-"}) = 1
  /\ out.kind = "return"


\* C13: a POST /tasks whose 'text' is missing, not a string or the empty
\* string is answered 400 {message: 'Invalid task payload'} and leaves the
\* tasks list unchanged; only a non-empty string 'text' is answered 200
\* {message: 'Task added successfully'}.
C13_PostTasksValidation ==
  [][taskRes'.route = "POST /tasks" =>
       LET text == taskReq'
           nonEmptyString == text.type = "string" /\ text.str # ""
       IN  /\ ~nonEmptyString =>
                /\ taskRes'.status = 400
                /\ taskRes'.message = "Invalid task payload"
                /\ tasks' = tasks
           /\ taskRes'.status = 200 <=> nonEmptyString
           /\ taskRes'.status = 200 => taskRes'.message = "Task added successfully"]_vars

\* The empty string refused after two tasks were added
C13_Witness ==
  /\ taskRes.route = "POST /tasks"
  /\ taskReq = Value("string", "", 0)
  /\ taskRes.status = 400
  /\ Len(tasks) = Len(InitialTasks) + 2

\* C14: the tasks list is always the five initial tasks followed by the
\* 'text' of every POST answered 200, in the order they were handled,
\* duplicates included, and GET /tasks returns exactly that list (so no
\* request removes, reorders or rewrites a task and no GET changes the list).
C14_TasksAppendOnly ==
  /\ tasks = InitialTasks \o accepted
  /\ taskRes.route = "GET /tasks" => taskRes.tasks = InitialTasks \o accepted

\* GET /tasks after three accepted POSTs, two of them with the same text and
\* the third with a different one
C14_Witness ==
  /\ taskRes.route = "GET /tasks"
  /\ Len(accepted) = 3
  /\ accepted[1] = accepted[2]
  /\ accepted[3] # accepted[1]
  /\ taskRes.tasks = InitialTasks \o accepted

\* The DELETE requests that were answered
AnsweredDeletes == {s \in Slots : reqs[s].route = "DELETE" /\ reqs[s].at = "done"}

\* C15: a comment is removed only by a DELETE of its seller: a DELETE for an
\* id without a comment is answered 404 {error: 'Comment not found'}, a
\* DELETE by another user is answered 403 and removes nothing, GET never
\* changes the store, and every comment missing from the store was removed
\* by its seller.
C15_OnlySellerDeletes ==
  /\ \A p \in removers : p[1] \in Comments /\ p[2] = Seller[p[1]]
  /\ store = {c \in Comments : << c, Seller[c] >> \notin removers}
  /\ \A s \in AnsweredDeletes :
       LET r == reqs[s]
       IN  /\ r.id \notin Comments =>
                r.status = 404 /\ r.body = {"Comment not found"}
           /\ ~r.found => r.status = 404 /\ r.body = {"Comment not found"}
           /\ (r.id \in Comments /\ r.found /\ r.user # Seller[r.id]) =>
                r.status = 403 /\ << r.id, r.user >> \notin removers
           /\ r.status = 200 => r.user = Seller[r.id] /\ r.id \notin store
  /\ \A s \in Slots :
       (reqs[s].route = "GET" /\ reqs[s].at = "done") => reqs[s].body \subseteq Comments

\* A DELETE by a user who is not the seller answered 403 with the comment
\* still in the store, and a DELETE of an unknown id answered 404
C15_Witness ==
  \E s1, s2 \in Slots :
    /\ reqs[s1].route = "DELETE" /\ reqs[s1].at = "done"
    /\ reqs[s1].id \in store
    /\ reqs[s1].user # Seller[reqs[s1].id]
    /\ reqs[s1].status = 403
    /\ reqs[s2].route = "DELETE" /\ reqs[s2].at = "done"
    /\ reqs[s2].id \notin Comments
    /\ reqs[s2].status = 404

\* C19: for each comment at most one DELETE is answered 200, also when
\* several DELETEs of its seller are in flight at once; every other one is
\* answered 404.
C19_AtMostOneDeleteSucceeds ==
  \A c \in Comments :
    /\ Cardinality({s \in AnsweredDeletes : reqs[s].id = c /\ reqs[s].status = 200}) <= 1
    /\ \A s1, s2 \in AnsweredDeletes :
         (s1 # s2 /\ reqs[s1].id = c /\ reqs[s2].id = c
            /\ reqs[s1].user = Seller[c] /\ reqs[s2].user = Seller[c])
           => reqs[s1].status = 404 \/ reqs[s2].status = 404


\* C16: in toDotCase and the strict toCamelCase every string whose raw
\* length exceeds MAX_SAFE_INPUT_LENGTH throws the RangeError, whatever it
\* is made of (whitespace only, digits, symbols), before the whitespace-only
\* and character-class checks; no string of at most that length, the limit
\* included, is refused as too large.
C16_SizeCheckedBeforeTrim ==
  (fn \in {"toDotCase", "toCamelCase"} /\ IsStringArg) =>
    /\ length(arg) > MAX_SAFE_INPUT_LENGTH
         => out = Throw("RangeError", TooLargeMessage(length(arg)))
    /\ length(arg) <= MAX_SAFE_INPUT_LENGTH => out.error # "RangeError"

\* Whitespace only, one character beyond the limit: too large, not
\* whitespace-only
C16_Witness ==
  /\ fn = "toCamelCase" /\ IsStringArg
  /\ length(arg) = MAX_SAFE_INPUT_LENGTH + 1
  /\ Trimmed = << >>
  /\ out.error = "RangeError"

====
